---- MODULE Spec2Model ----
(***************************************************************************)
(* A model of the accreditation-analyzer front end: the four localStorage  *)
(* collections shared by every browser tab, and per tab the React state of *)
(* App, Login, AccreditationAnalyzer, SubmissionReviewModal and            *)
(* UserManagementModal.  Every event handler is one atomic action (the     *)
(* page is single threaded); the handler's state updates and the effects   *)
(* React runs after them are part of the same action.  Asynchronous work   *)
(* (an analysis awaiting the AI service) is a record in flight whose       *)
(* completion is a separate action.                                        *)
(***************************************************************************)
EXTENDS Integers, Sequences, FiniteSets, TLC

VARIABLES
    lsUsers,          \* localStorage['dentedtechUsers']: None when the key is absent
    lsSubmissions,    \* localStorage['accreditationSubmissions'] (absent = empty)
    lsNotifications,  \* localStorage['accreditationSubmissionNotifications']
    lsMessages,       \* localStorage['internalUserMessages']
    tab,              \* per browser tab: the component state
    nextId            \* source of crypto.randomUUID() values and timestamps

vars == <<lsUsers, lsSubmissions, lsNotifications, lsMessages, tab, nextId>>

----------------------------------------------------------------------------
(* Bounds of the model: how many submissions, notes of one submission,    *)
(* analyses in flight in one tab and created users a run may hold          *)

MaxSubmissions == 2
MaxNotes == 1
MaxInflight == 1
MaxCreated == 2
MaxRuns == 2
MaxMessages == 2


----------------------------------------------------------------------------
(* Optional values: null is <<>>, a value v is <<v>> *)

None == <<>>
Some(v) == <<v>>
IsSome(o) == Len(o) = 1
IsNone(o) == Len(o) = 0
Val(o) == o[1]

\* Array.prototype.sort((a, b) => new Date(b.submittedAt) - new Date(a.submittedAt)):
\* newest first, stable
RECURSIVE InsertBySubmittedAt(_, _)
InsertBySubmittedAt(x, s) ==
    IF s = <<>> THEN <<x>>
    ELSE IF x.submittedAt >= Head(s).submittedAt THEN <<x>> \o s
    ELSE <<Head(s)>> \o InsertBySubmittedAt(x, Tail(s))

RECURSIVE SortBySubmittedAt(_)
SortBySubmittedAt(s) ==
    IF s = <<>> THEN <<>>
    ELSE InsertBySubmittedAt(Head(s), SortBySubmittedAt(Tail(s)))

\* Array.prototype.sort((a, b) => new Date(b.timestamp) - new Date(a.timestamp))
RECURSIVE InsertByTimestamp(_, _)
InsertByTimestamp(x, s) ==
    IF s = <<>> THEN <<x>>
    ELSE IF x.timestamp >= Head(s).timestamp THEN <<x>> \o s
    ELSE <<Head(s)>> \o InsertByTimestamp(x, Tail(s))

RECURSIVE SortByTimestamp(_)
SortByTimestamp(s) ==
    IF s = <<>> THEN <<>>
    ELSE InsertByTimestamp(Head(s), SortByTimestamp(Tail(s)))

\* Array.prototype.findIndex: the first index satisfying Test, 0 for -1
FindIndex(s, Test(_)) ==
    IF \E i \in 1..Len(s) : Test(s[i])
    THEN CHOOSE i \in 1..Len(s) : Test(s[i]) /\ \A j \in 1..(i - 1) : ~Test(s[j])
    ELSE 0

SeqToSet(s) == {s[i] : i \in 1..Len(s)}

----------------------------------------------------------------------------
(* Strings the handlers convert: toLowerCase() and trim() over the names   *)
(* the model draws                                                         *)

Lower(s) ==
    CASE s = "Bob" -> "bob"
      [] s = "ADMIN" -> "admin"
      [] OTHER -> s

Trim(s) ==
    CASE s = " " -> ""
      [] s = " Bob" -> "Bob"
      [] OTHER -> s

----------------------------------------------------------------------------
(* Roles and the seeded users *)

Admin == "Admin"
Lead == "University Lead"
UnivID == "University ID"
ALL_ROLES == {Admin, Lead, UnivID}

StoredUser(u, r, p) == [username |-> u, role |-> r, password |-> p]
User(u, r) == [username |-> u, role |-> r]

defaultUsers ==
    << StoredUser("admin", Admin, "adminpass"),
       StoredUser("lead", Lead, "leadpass") >>

\* JSON.parse(localStorage.getItem(KEY)) or [] when the key is absent
ReadUsers == IF IsSome(lsUsers) THEN Val(lsUsers) ELSE <<>>

----------------------------------------------------------------------------
(* The standards catalog and the reconciliation of an AI response.  A      *)
(* standard id is a sequence of characters, so that toLowerCase and the    *)
(* two replace() calls of normalizeId are computed, not assumed.           *)

ADA_1_1 == <<"A", "D", "A", "-", "1", ".", "1">>
ADA_2_3 == <<"A", "D", "A", "-", "2", ".", "3">>
GDC_1_0 == <<"G", "D", "C", "-", "1", ".", "0">>
NA == <<"N", "/", "A">>

Standard(id, name) == [id |-> id, name |-> name]

\* the catalog, cut to the first standards of two bodies
ACCREDITATION_BODIES ==
    << [key |-> "ADA", name |-> "American Dental Association (ADA CODA)",
        standards |-> << Standard(ADA_1_1, "Curriculum Management & Evaluation"),
                         Standard(ADA_2_3, "Patient Care Competencies") >>],
       [key |-> "GDC", name |-> "General Dental Council (GDC)",
        standards |-> << Standard(GDC_1_0, "Clinical Safety and Effectiveness") >>] >>

BodyKeys == {ACCREDITATION_BODIES[i].key : i \in 1..Len(ACCREDITATION_BODIES)}

BodyOf(bodyKey) ==
    ACCREDITATION_BODIES[FindIndex(ACCREDITATION_BODIES, LAMBDA b : b.key = bodyKey)]

LowerChar(c) ==
    CASE c = "A" -> "a" [] c = "D" -> "d" [] c = "G" -> "g" [] c = "C" -> "c"
      [] c = "N" -> "n" [] c = "X" -> "x"
      [] OTHER -> c

ToLowerCase(str) == [i \in 1..Len(str) |-> LowerChar(str[i])]

IsSpace(c) == c = " "

\* id ? id.toLowerCase().replace(/\s+/g, '').replace(/-/g, '') : ''
normalizeId(id) ==
    IF id = <<>> THEN <<>>
    ELSE SelectSeq(SelectSeq(ToLowerCase(id), LAMBDA c : ~IsSpace(c)), LAMBDA c : c # "-")

\* a matchPercentage as JSON gives it: a number, or something else
Num(n) == [isNumber |-> TRUE, value |-> n]
NotANumber == [isNumber |-> FALSE, value |-> 0]

NO_REASONING == "Reasoning not explicitly provided by AI."
NO_FEEDBACK == "No feedback provided."

\* a clamp that forgets the lower end of the range
ClampPercentageAbove(mp) ==
    IF mp.isNumber
    THEN (IF mp.value < 100 THEN mp.value ELSE 100)
    ELSE 0

ClampPercentage(mp) ==
    IF mp.isNumber
    THEN (IF (IF mp.value < 100 THEN mp.value ELSE 100) > 0
          THEN (IF mp.value < 100 THEN mp.value ELSE 100) ELSE 0)
    ELSE 0

\* the body of parsedData.results.map(...): one returned item reconciled
\* against the standards of its body; reasoning "" stands for undefined
MapItem(body, item) ==
    LET originalApiStandardId == item.standardId
        m == FindIndex(body.standards,
                 LAMBDA st : normalizeId(st.id) = normalizeId(originalApiStandardId))
        finalStandardId ==
            IF m > 0 THEN body.standards[m].id
            ELSE IF originalApiStandardId # <<>> THEN originalApiStandardId ELSE NA
        finalStandardName ==
            IF m > 0 THEN body.standards[m].name
            ELSE IF item.standardName # "" THEN item.standardName ELSE "Unknown Standard"
    IN  [ standardId |-> finalStandardId,
          standardName |-> finalStandardName,
          matchPercentage |-> ClampPercentage(item.matchPercentage),
          improvementFeedback |->
              IF item.improvementFeedback # "" THEN item.improvementFeedback ELSE NO_FEEDBACK,
          reasoning |->
              IF item.reasoning # "" THEN item.reasoning
              ELSE IF item.matchPercentage.isNumber /\ item.matchPercentage.value < 75
                   THEN NO_REASONING ELSE "" ]

\* the AnalysisResultsGroup built from one body's parsed response
BuildGroup(bodyKey, results) ==
    LET body == BodyOf(bodyKey)
        mapped == [i \in 1..Len(results) |-> MapItem(body, results[i])]
    IN  [ accreditationBodyKey |-> body.key,
          accreditationBodyName |-> body.name,
          items |-> SelectSeq(mapped, LAMBDA it : it.standardId # NA) ]

\* what one body's promise settles to
Fulfilled(results) == [ok |-> TRUE, results |-> results, message |-> ""]
Rejected(message) == [ok |-> FALSE, results |-> <<>>, message |-> message]

\* the ways a body's promise rejects; a message is the sequence of the parts
\* its template literal joins.  The call itself fails:
CallError == Rejected(<<"fetch failed">>)
\* JSON.parse throws on the response text:
DecodeFailure == Rejected(<<"Unexpected token < in JSON at position 0">>)
\* parsedData.results is not an array:
MissingResults(bodyKey) ==
    Rejected(<<"Invalid JSON structure in API response for ", BodyOf(bodyKey).name,
               ". Expected 'results' array.">>)

ApiItem(id, mp, reasoning) ==
    [ standardId |-> id, standardName |-> "", matchPercentage |-> mp,
      improvementFeedback |-> "Add detail.", reasoning |-> reasoning ]

----------------------------------------------------------------------------
(* The component state of one tab *)

\* The error banner: null is <<>>, otherwise the lines of the message
NoError == <<>>
ErrLine(m) == <<[text |-> m, detail |-> <<>>]>>

E_PENDING_WAIT == "You have a submission pending review. Please wait for Admin/Lead approval or load a past submission to revise."
E_PENDING_NEW == "You have a submission pending review. Please wait for Admin/Lead approval before making a new submission."
E_PENDING_ANALYSIS == "You have a submission pending review. Cannot start a new analysis."
E_NO_CONTENT == "Please enter or upload program content."
E_NO_BODY == "Please select at least one accreditation body."
E_CANNOT_SUBMIT == "Cannot submit for review: analysis results or program content is missing."
E_ALL_FAILED == "Failed to analyze content for all selected accreditation bodies. Please check your input or try again later."
E_ONE_FAILED == "Analysis failed for one or more accreditation bodies"

\* App before its seeding effect has run, Login not yet shown
UnstartedTab ==
    [ appReady |-> FALSE,
      loginError |-> FALSE,
      currentUser |-> None,
      selectedBodyKeys |-> <<>>,
      programContent |-> "",
      analysisResults |-> None,
      isLoading |-> FALSE,
      isFileParsing |-> FALSE,
      error |-> NoError,
      submissionsForReview |-> <<>>,
      userPastSubmissions |-> <<>>,
      revisingSubmissionInfo |-> None,
      selectedSubmissionForReview |-> None,
      hasPendingSubmission |-> FALSE,
      currentUserSubmissionNotifications |-> <<>>,
      unreadInternalMessagesCount |-> 0,
      showUserManagementModal |-> FALSE,
      showSubmissionNotificationsModal |-> FALSE,
      showInternalMessagesModal |-> FALSE,
      messages |-> <<>>,
      composeError |-> "",
      users |-> <<>>,
      umError |-> "",
      successMessage |-> "",
      currentSubmissionNotes |-> <<>>,
      pendingAnalyses |-> <<>> ]

\* App ready, nobody logged in: the Login form
LoggedOutTab == [UnstartedTab EXCEPT !.appReady = TRUE]

\* a gate that lets every role review
IsReviewerAnyRole(role) == role \in ALL_ROLES

IsReviewer(role) == role = Admin \/ role = Lead

\* loadUserSubmissionNotifications
LoadUserSubmissionNotifications(st, notifications) ==
    LET username == Val(st.currentUser).username
        userNotifications == SelectSeq(notifications, LAMBDA n : n.recipientUsername = username)
    IN  [st EXCEPT !.currentUserSubmissionNotifications = SortByTimestamp(userNotifications)]

unreadSubmissionNotificationCount(st) ==
    Len(SelectSeq(st.currentUserSubmissionNotifications, LAMBDA n : ~n.isRead))

\* the inbox filter of loadInternalMessagesForUser and InternalMessagesModal
IsForUser(m, user) ==
    \/ (m.recipientIdentifier.type = "user" /\ m.recipientIdentifier.value = user.username)
    \/ (m.recipientIdentifier.type = "role" /\ m.recipientIdentifier.value = user.role)

\* loadInternalMessagesForUser
LoadInternalMessagesForUser(st, messages) ==
    LET user == Val(st.currentUser)
        userInboxMessages == SelectSeq(messages, LAMBDA m : IsForUser(m, user))
    IN  [st EXCEPT !.unreadInternalMessagesCount =
            Len(SelectSeq(userInboxMessages, LAMBDA m : user.username \notin m.readBy))]

PastSubmissionsOf(username, submissions) ==
    SortBySubmittedAt(SelectSeq(submissions,
        LAMBDA s : s.submittedByUsername = username /\ s.status \in {"approved", "rejected"}))

PendingSubmissions(submissions) ==
    SortBySubmittedAt(SelectSeq(submissions, LAMBDA s : s.status = "pending"))

HasPendingIn(username, submissions) ==
    \E i \in 1..Len(submissions) :
        submissions[i].submittedByUsername = username /\ submissions[i].status = "pending"

\* the effect loadSubmissionsData, run on mount and whenever
\* revisingSubmissionInfo changes
LoadSubmissionsData(st, submissions) ==
    LET user == Val(st.currentUser)
        revising == IsSome(st.revisingSubmissionInfo)
        pending == HasPendingIn(user.username, submissions)
        st1 == [st EXCEPT !.userPastSubmissions = PastSubmissionsOf(user.username, submissions)]
    IN  IF IsReviewer(user.role)
        THEN [st1 EXCEPT !.submissionsForReview = PendingSubmissions(submissions)]
        ELSE IF user.role = UnivID
        THEN [st1 EXCEPT
                !.hasPendingSubmission = pending,
                !.error = IF pending /\ ~revising THEN ErrLine(E_PENDING_WAIT)
                          ELSE IF ~revising THEN NoError
                          ELSE @,
                !.submissionsForReview = <<>>]
        ELSE st1

\* AccreditationAnalyzer mounting for a user: initial state, then its effects
MountAnalyzer(user) ==
    LET st0 == [LoggedOutTab EXCEPT !.currentUser = Some(user)]
        st1 == LoadUserSubmissionNotifications(st0, lsNotifications)
        st2 == LoadInternalMessagesForUser(st1, lsMessages)
    IN  LoadSubmissionsData(st2, lsSubmissions)

storeVars == <<lsUsers, lsSubmissions, lsNotifications, lsMessages>>

----------------------------------------------------------------------------
(* App and Login *)

\* App's seeding effect
AppStart(t) ==
    /\ ~tab[t].appReady
    /\ lsUsers' = IF IsNone(lsUsers) THEN Some(defaultUsers) ELSE lsUsers
    /\ tab' = [tab EXCEPT ![t] = LoggedOutTab]
    /\ UNCHANGED <<lsSubmissions, lsNotifications, lsMessages, nextId>>

\* storedUsers.find(u => u.username.toLowerCase() === username.toLowerCase())
FindUser(storedUsers, username) ==
    FindIndex(storedUsers, LAMBDA u : Lower(u.username) = Lower(username))

\* a login that does not compare the password of the stored user
LoginResultAnyPassword(storedUsers, username, password) ==
    LET i == FindUser(storedUsers, username)
    IN  IF i > 0
        THEN Some(User(storedUsers[i].username, storedUsers[i].role))
        ELSE IF Lower(username) = "admin" /\ password = "adminpass"
             THEN Some(User("admin", Admin))
        ELSE IF Lower(username) = "lead" /\ password = "leadpass"
             THEN Some(User("lead", Lead))
        ELSE None

\* the user Login.handleSubmit logs in, None when it sets the error
LoginResult(storedUsers, username, password) ==
    LET i == FindUser(storedUsers, username)
    IN  IF i > 0
        THEN IF storedUsers[i].password = password
             THEN Some(User(storedUsers[i].username, storedUsers[i].role))
             ELSE None
        ELSE IF Lower(username) = "admin" /\ password = "adminpass"
             THEN Some(User("admin", Admin))
        ELSE IF Lower(username) = "lead" /\ password = "leadpass"
             THEN Some(User("lead", Lead))
        ELSE None

\* Login.handleSubmit followed by App.handleLogin
Login(t, username, password) ==
    /\ tab[t].appReady
    /\ IsNone(tab[t].currentUser)
    /\ username # "" /\ password # ""
    /\ LET r == LoginResult(ReadUsers, username, password)
       IN  tab' = [tab EXCEPT ![t] =
                IF IsSome(r) THEN MountAnalyzer(Val(r))
                ELSE [LoggedOutTab EXCEPT !.loginError = TRUE]]
    /\ UNCHANGED <<storeVars, nextId>>

\* App.handleLogout: the analyzer unmounts and its state is gone
Logout(t) ==
    /\ IsSome(tab[t].currentUser)
    /\ IsNone(tab[t].selectedSubmissionForReview)
    /\ ~tab[t].showUserManagementModal
    /\ ~tab[t].showSubmissionNotificationsModal
    /\ ~tab[t].showInternalMessagesModal
    /\ tab' = [tab EXCEPT ![t] = LoggedOutTab]
    /\ UNCHANGED <<storeVars, nextId>>

----------------------------------------------------------------------------
(* AccreditationAnalyzer *)

LoggedIn(t) == IsSome(tab[t].currentUser)
RoleOf(t) == Val(tab[t].currentUser).role
UsernameOf(t) == Val(tab[t].currentUser).username

\* a dialog with aria-modal covers the page: its buttons are the only ones
NoModal(t) ==
    /\ IsNone(tab[t].selectedSubmissionForReview)
    /\ ~tab[t].showUserManagementModal
    /\ ~tab[t].showSubmissionNotificationsModal
    /\ ~tab[t].showInternalMessagesModal

mainAnalysisDisabled(st) ==
    \/ st.isLoading
    \/ st.isFileParsing
    \/ (st.hasPendingSubmission /\ Val(st.currentUser).role = UnivID
            /\ IsNone(st.revisingSubmissionInfo))

\* disabled={mainAnalysisDisabled && !revisingSubmissionInfo} of the inputs
InputsDisabled(st) == mainAnalysisDisabled(st) /\ IsNone(st.revisingSubmissionInfo)

\* the results section, which holds Submit for Review and Cancel Revision
ResultsShown(st) ==
    /\ IsSome(st.analysisResults)
    /\ ~st.isLoading
    /\ ~st.isFileParsing
    /\ Len(Val(st.analysisResults)) > 0

handleBodySelectionChange(t, bodyKey) ==
    /\ LoggedIn(t) /\ NoModal(t)
    /\ ~InputsDisabled(tab[t])
    /\ tab' = [tab EXCEPT ![t].selectedBodyKeys =
            IF bodyKey \in SeqToSet(@)
            THEN SelectSeq(@, LAMBDA key : key # bodyKey)
            ELSE Append(@, bodyKey)]
    /\ UNCHANGED <<storeVars, nextId>>

\* typing into the program-content textarea
setProgramContent(t, text) ==
    /\ LoggedIn(t) /\ NoModal(t)
    /\ ~InputsDisabled(tab[t])
    /\ text # tab[t].programContent
    /\ tab' = [tab EXCEPT ![t].programContent = text]
    /\ UNCHANGED <<storeVars, nextId>>

\* handleSubmitAnalysis up to its await: the per-body calls are in flight
handleSubmitAnalysis(t) ==
    LET st == tab[t] IN
    /\ LoggedIn(t) /\ NoModal(t)
    /\ ~(InputsDisabled(st) \/ Trim(st.programContent) = "" \/ Len(st.selectedBodyKeys) = 0)
    /\ tab' = [tab EXCEPT ![t] =
            IF Trim(st.programContent) = "" THEN [st EXCEPT !.error = ErrLine(E_NO_CONTENT)]
            ELSE IF Len(st.selectedBodyKeys) = 0 THEN [st EXCEPT !.error = ErrLine(E_NO_BODY)]
            ELSE IF st.hasPendingSubmission /\ RoleOf(t) = UnivID /\ IsNone(st.revisingSubmissionInfo)
                 THEN [st EXCEPT !.error = ErrLine(E_PENDING_ANALYSIS)]
            ELSE [st EXCEPT
                    !.isLoading = TRUE,
                    !.error = NoError,
                    !.analysisResults = None,
                    !.pendingAnalyses = Append(@,
                        [bodyKeys |-> st.selectedBodyKeys, programContent |-> st.programContent])]]
    /\ UNCHANGED <<storeVars, nextId>>

\* the groups of the fulfilled promises, in the order of the selected bodies
RECURSIVE SuccessfulResults(_, _)
SuccessfulResults(bodyKeys, settled) ==
    IF bodyKeys = <<>> THEN <<>>
    ELSE (IF Head(settled).ok THEN <<BuildGroup(Head(bodyKeys), Head(settled).results)>> ELSE <<>>)
         \o SuccessfulResults(Tail(bodyKeys), Tail(settled))

\* setError(prev => (prev ? prev + "\n" : "") + ...) for every rejected promise
RECURSIVE FailureLines(_, _)
FailureLines(error, settled) ==
    IF settled = <<>> THEN error
    ELSE FailureLines(
            IF Head(settled).ok THEN error
            ELSE Append(error, [text |-> E_ONE_FAILED, detail |-> Head(settled).message]),
            Tail(settled))

\* the rest of handleSubmitAnalysis, once Promise.allSettled has resolved
AnalysisSettled(st, bodyKeys, settled) ==
    LET successfulResults == SuccessfulResults(bodyKeys, settled)
        encounteredError == \E i \in 1..Len(settled) : ~settled[i].ok
    IN  [st EXCEPT
            !.analysisResults = IF Len(successfulResults) > 0 THEN Some(successfulResults) ELSE @,
            !.error = IF Len(successfulResults) = 0 /\ encounteredError
                      THEN ErrLine(E_ALL_FAILED)
                      ELSE FailureLines(st.error, settled),
            !.isLoading = FALSE]

RemoveAt(s, i) == SubSeq(s, 1, i - 1) \o SubSeq(s, i + 1, Len(s))

\* the i-th analysis in flight completes; settled[k] is what the call for
\* its k-th body settled to
CompleteAnalysis(t, i, settled) ==
    /\ LoggedIn(t)
    /\ i \in 1..Len(tab[t].pendingAnalyses)
    /\ Len(settled) = Len(tab[t].pendingAnalyses[i].bodyKeys)
    /\ tab' = [tab EXCEPT ![t] =
            [AnalysisSettled(tab[t], tab[t].pendingAnalyses[i].bodyKeys, settled)
                EXCEPT !.pendingAnalyses = RemoveAt(@, i)]]
    /\ UNCHANGED <<storeVars, nextId>>

\* const newSubmission: Submission = {...}
NewSubmission(id, st) ==
    [ id |-> id,
      submittedByUsername |-> Val(st.currentUser).username,
      submittedByUserRole |-> Val(st.currentUser).role,
      submittedAt |-> id,
      programContent |-> st.programContent,
      analysisResults |-> Val(st.analysisResults),
      selectedBodyKeys |-> st.selectedBodyKeys,
      status |-> "pending",
      notes |-> IF IsSome(st.revisingSubmissionInfo)
                THEN Val(st.revisingSubmissionInfo).notes ELSE <<>> ]

\* the validation at the head of handleSubmitForReview
CanSubmitForReview(st) == ~(IsNone(st.analysisResults) \/ st.programContent = "")

\* the state handleSubmitForReview leaves after a successful save, with the
\* loadSubmissionsData effect when revisingSubmissionInfo went to null
AfterSubmitForReview(st, submissions) ==
    LET user == Val(st.currentUser)
        st1 == [st EXCEPT
                  !.analysisResults = None,
                  !.programContent = "",
                  !.selectedBodyKeys = <<>>,
                  !.hasPendingSubmission = TRUE,
                  !.revisingSubmissionInfo = None,
                  !.error = ErrLine(E_PENDING_NEW),
                  !.userPastSubmissions =
                      IF user.role = UnivID
                      THEN PastSubmissionsOf(user.username, submissions) ELSE @]
    IN  IF IsSome(st.revisingSubmissionInfo) THEN LoadSubmissionsData(st1, submissions) ELSE st1

handleSubmitForReview(t) ==
    LET st == tab[t]
        submissions == Append(lsSubmissions, NewSubmission(nextId, st))
    IN
    /\ LoggedIn(t) /\ NoModal(t)
    /\ ResultsShown(st)
    /\ IF CanSubmitForReview(st)
       THEN /\ lsSubmissions' = submissions
            /\ nextId' = nextId + 1
            /\ tab' = [tab EXCEPT ![t] = AfterSubmitForReview(st, submissions)]
       ELSE /\ tab' = [tab EXCEPT ![t].error = ErrLine(E_CANNOT_SUBMIT)]
            /\ UNCHANGED <<lsSubmissions, nextId>>
    /\ UNCHANGED <<lsUsers, lsNotifications, lsMessages>>

showPastSubmissionsSection(st) ==
    /\ Len(st.userPastSubmissions) > 0
    /\ IsNone(st.revisingSubmissionInfo)
    /\ \/ (Val(st.currentUser).role = UnivID /\ ~st.hasPendingSubmission)
       \/ Val(st.currentUser).role = Admin
       \/ Val(st.currentUser).role = Lead

\* handleLoadForRevision on the i-th listed past submission, then the
\* loadSubmissionsData effect
handleLoadForRevision(t, i) ==
    LET st == tab[t] IN
    /\ LoggedIn(t) /\ NoModal(t)
    /\ showPastSubmissionsSection(st)
    /\ i \in 1..Len(st.userPastSubmissions)
    /\ LET submissionToRevise == st.userPastSubmissions[i]
           st1 == [st EXCEPT
                     !.programContent = submissionToRevise.programContent,
                     !.selectedBodyKeys = submissionToRevise.selectedBodyKeys,
                     !.analysisResults = None,
                     !.error = NoError,
                     !.hasPendingSubmission = FALSE,
                     !.revisingSubmissionInfo = Some(
                         [ id |-> submissionToRevise.id,
                           originalStatus |-> submissionToRevise.status,
                           notes |-> submissionToRevise.notes ])]
       IN  tab' = [tab EXCEPT ![t] = LoadSubmissionsData(st1, lsSubmissions)]
    /\ UNCHANGED <<storeVars, nextId>>

\* the Cancel Revision & Start New button, then the loadSubmissionsData effect
handleCancelRevision(t) ==
    LET st == tab[t] IN
    /\ LoggedIn(t) /\ NoModal(t)
    /\ ResultsShown(st)
    /\ IsSome(st.revisingSubmissionInfo)
    /\ LET st1 == [st EXCEPT
                     !.revisingSubmissionInfo = None,
                     !.programContent = "",
                     !.analysisResults = None,
                     !.selectedBodyKeys = <<>>,
                     !.error = IF st.hasPendingSubmission /\ RoleOf(t) = UnivID
                               THEN ErrLine(E_PENDING_NEW) ELSE NoError]
       IN  tab' = [tab EXCEPT ![t] = LoadSubmissionsData(st1, lsSubmissions)]
    /\ UNCHANGED <<storeVars, nextId>>

----------------------------------------------------------------------------
(* SubmissionReviewModal *)

\* handleOpenSubmissionForReview on the i-th listed submission; the modal
\* mounts with useState(submission.notes || [])
handleOpenSubmissionForReview(t, i) ==
    LET st == tab[t] IN
    /\ LoggedIn(t) /\ NoModal(t)
    /\ IsReviewer(RoleOf(t))
    /\ i \in 1..Len(st.submissionsForReview)
    /\ tab' = [tab EXCEPT ![t] = [st EXCEPT
            !.selectedSubmissionForReview = Some(st.submissionsForReview[i]),
            !.currentSubmissionNotes = st.submissionsForReview[i].notes]]
    /\ UNCHANGED <<storeVars, nextId>>

\* handleCloseSubmissionReviewModal(refreshList), reading the stores given
CloseSubmissionReviewModal(st, refreshList, submissions, notifications) ==
    LET user == Val(st.currentUser)
        st1 == [st EXCEPT !.selectedSubmissionForReview = None,
                          !.currentSubmissionNotes = <<>>]
        st2 == [st1 EXCEPT !.userPastSubmissions = PastSubmissionsOf(user.username, submissions)]
        st3 == IF IsReviewer(user.role)
               THEN [st2 EXCEPT !.submissionsForReview = PendingSubmissions(submissions)]
               ELSE IF user.role = UnivID
               THEN [st2 EXCEPT
                       !.hasPendingSubmission = HasPendingIn(user.username, submissions),
                       !.error = IF ~HasPendingIn(user.username, submissions)
                                    /\ IsNone(st.revisingSubmissionInfo)
                                 THEN NoError ELSE @]
               ELSE st2
    IN  IF refreshList THEN LoadUserSubmissionNotifications(st3, notifications) ELSE st1

\* the Close buttons of the modal: onClose(false)
handleCloseSubmissionReviewModal(t) ==
    /\ LoggedIn(t)
    /\ IsSome(tab[t].selectedSubmissionForReview)
    /\ tab' = [tab EXCEPT ![t] =
            CloseSubmissionReviewModal(tab[t], FALSE, lsSubmissions, lsNotifications)]
    /\ UNCHANGED <<storeVars, nextId>>

SubmissionIndex(submissions, id) == FindIndex(submissions, LAMBDA s : s.id = id)

NotificationMessage(id, newStatus) ==
    [template |-> "Your submission (ID: %id...) has been %status.",
     id |-> id, status |-> newStatus]

\* the stored submissions after handleUpdateSubmissionStatus
UpdatedSubmissions(submissions, id, newStatus, notes) ==
    LET submissionIndex == SubmissionIndex(submissions, id)
    IN  IF submissionIndex > 0
        THEN [submissions EXCEPT ![submissionIndex].status = newStatus,
                                 ![submissionIndex].notes = notes]
        ELSE submissions

\* a use of the handler that stores nothing
addSubmissionNotificationDropped(notifications, notification) == notifications

\* addSubmissionNotificationToStorage
addSubmissionNotificationToStorage(notifications, notification) ==
    Append(notifications, notification)

\* const notificationForSubmitter: Notification = {...}
NotificationForSubmitter(id, submission, newStatus) ==
    [ id |-> id,
      recipientUsername |-> submission.submittedByUsername,
      message |-> NotificationMessage(submission.id, newStatus),
      timestamp |-> id,
      isRead |-> FALSE,
      relatedSubmissionId |-> submission.id ]

\* the Approve / Reject buttons, shown while the submission prop is pending
handleUpdateSubmissionStatus(t, newStatus) ==
    LET st == tab[t]
        submission == Val(st.selectedSubmissionForReview)
        submissions == UpdatedSubmissions(lsSubmissions, submission.id, newStatus,
                                          st.currentSubmissionNotes)
        notificationForSubmitter == NotificationForSubmitter(nextId, submission, newStatus)
        notifications ==
            addSubmissionNotificationToStorage(lsNotifications, notificationForSubmitter)
    IN
    /\ LoggedIn(t)
    /\ IsSome(st.selectedSubmissionForReview)
    /\ submission.status = "pending"
    /\ IF SubmissionIndex(lsSubmissions, submission.id) > 0
       THEN /\ lsSubmissions' = submissions
            /\ lsNotifications' = notifications
            /\ nextId' = nextId + 1
            /\ tab' = [tab EXCEPT ![t] =
                    CloseSubmissionReviewModal(st, TRUE, submissions, notifications)]
       ELSE /\ tab' = [tab EXCEPT ![t] =
                    CloseSubmissionReviewModal(st, FALSE, lsSubmissions, lsNotifications)]
            /\ UNCHANGED <<lsSubmissions, lsNotifications, nextId>>
    /\ UNCHANGED <<lsUsers, lsMessages>>

\* the stored submissions after handleAddNote has persisted updatedNotes
NotedSubmissions(submissions, id, updatedNotes) ==
    LET submissionIndex == SubmissionIndex(submissions, id)
    IN  IF submissionIndex > 0
        THEN [submissions EXCEPT ![submissionIndex].notes = updatedNotes]
        ELSE submissions

\* the Add Note button, shown while the submission prop is pending
handleAddNote(t, newNoteText) ==
    LET st == tab[t]
        submission == Val(st.selectedSubmissionForReview)
        newNote == [by |-> UsernameOf(t), role |-> RoleOf(t), text |-> Trim(newNoteText)]
        updatedNotes == Append(st.currentSubmissionNotes, newNote)
    IN
    /\ LoggedIn(t)
    /\ IsSome(st.selectedSubmissionForReview)
    /\ submission.status = "pending"
    /\ IF Trim(newNoteText) = ""
       THEN UNCHANGED <<tab, lsSubmissions>>
       ELSE /\ tab' = [tab EXCEPT ![t].currentSubmissionNotes = updatedNotes]
            /\ lsSubmissions' = NotedSubmissions(lsSubmissions, submission.id, updatedNotes)
    /\ UNCHANGED <<lsUsers, lsNotifications, lsMessages, nextId>>

----------------------------------------------------------------------------
(* NotificationsModal *)

\* the footer's Submission Notifications button
handleOpenSubmissionNotificationsModal(t) ==
    /\ LoggedIn(t) /\ NoModal(t)
    /\ tab' = [tab EXCEPT ![t] =
            [LoadUserSubmissionNotifications(tab[t], lsNotifications)
                EXCEPT !.showSubmissionNotificationsModal = TRUE]]
    /\ UNCHANGED <<storeVars, nextId>>

\* the stored notifications after markSubmissionNotificationsAsReadInStorage
MarkedAsRead(notifications, username) ==
    [i \in 1..Len(notifications) |->
        IF notifications[i].recipientUsername = username /\ ~notifications[i].isRead
        THEN [notifications[i] EXCEPT !.isRead = TRUE]
        ELSE notifications[i]]

\* the Close buttons of the dialog: handleCloseSubmissionNotificationsModal
handleCloseSubmissionNotificationsModal(t) ==
    LET notifications == MarkedAsRead(lsNotifications, UsernameOf(t)) IN
    /\ LoggedIn(t)
    /\ tab[t].showSubmissionNotificationsModal
    /\ lsNotifications' = notifications
    /\ tab' = [tab EXCEPT ![t] =
            LoadUserSubmissionNotifications(
                [tab[t] EXCEPT !.showSubmissionNotificationsModal = FALSE], notifications)]
    /\ UNCHANGED <<lsUsers, lsSubmissions, lsMessages, nextId>>

\* a clearing that drops every notification of the user, read or not
ClearedOfUser(notifications, username) ==
    SelectSeq(notifications, LAMBDA n : ~(n.recipientUsername = username))

\* notifications.filter(n => !(n.recipientUsername === username && n.isRead))
ClearedOfRead(notifications, username) ==
    SelectSeq(notifications, LAMBDA n : ~(n.recipientUsername = username /\ n.isRead))

\* the Clear Read button, rendered while the dialog lists a read
\* notification: clearReadSubmissionNotificationsFromStorage
clearReadSubmissionNotificationsFromStorage(t) ==
    LET notifications == ClearedOfRead(lsNotifications, UsernameOf(t)) IN
    /\ LoggedIn(t)
    /\ tab[t].showSubmissionNotificationsModal
    /\ \E i \in 1..Len(tab[t].currentUserSubmissionNotifications) :
          tab[t].currentUserSubmissionNotifications[i].isRead
    /\ lsNotifications' = notifications
    /\ tab' = [tab EXCEPT ![t] = LoadUserSubmissionNotifications(tab[t], notifications)]
    /\ UNCHANGED <<lsUsers, lsSubmissions, lsMessages, nextId>>

----------------------------------------------------------------------------
(* InternalMessagesModal.  Its messages state is read only while the       *)
(* dialog is open and is reloaded whenever it opens: it is kept empty      *)
(* while the dialog is closed.  readBy is the set of its keys.             *)

\* the footer's Internal Messages button, then the effect on isOpen
handleOpenInternalMessages(t) ==
    /\ LoggedIn(t) /\ NoModal(t)
    /\ tab' = [tab EXCEPT ![t] =
            [@ EXCEPT !.showInternalMessagesModal = TRUE,
                      !.messages = SortByTimestamp(lsMessages),
                      !.composeError = ""]]
    /\ UNCHANGED <<storeVars, nextId>>

\* onClose: the dialog closes and the unread count is refreshed
handleCloseInternalMessages(t) ==
    /\ LoggedIn(t)
    /\ tab[t].showInternalMessagesModal
    /\ tab' = [tab EXCEPT ![t] =
            LoadInternalMessagesForUser(
                [@ EXCEPT !.showInternalMessagesModal = FALSE,
                          !.messages = <<>>,
                          !.composeError = ""],
                lsMessages)]
    /\ UNCHANGED <<storeVars, nextId>>

E_EMPTY_MESSAGE == "Subject and body cannot be empty."
E_EMPTY_RECIPIENT == "Recipient username cannot be empty."

\* the Send Message button of the compose form
handleSendMessage(t, composeRecipientType, composeRecipient, composeSubject, composeBody) ==
    LET st == tab[t]
        recipientValue ==
            IF composeRecipientType = "role" THEN composeRecipient ELSE Trim(composeRecipient)
        newMessage ==
            [ id |-> nextId,
              senderUsername |-> UsernameOf(t),
              senderRole |-> RoleOf(t),
              recipientIdentifier |-> [type |-> composeRecipientType, value |-> recipientValue],
              subject |-> composeSubject,
              body |-> composeBody,
              timestamp |-> nextId,
              readBy |-> {} ]
        updatedMessages == Append(st.messages, newMessage)
    IN
    /\ LoggedIn(t)
    /\ st.showInternalMessagesModal
    /\ IF Trim(composeSubject) = "" \/ Trim(composeBody) = ""
       THEN /\ tab' = [tab EXCEPT ![t].composeError = E_EMPTY_MESSAGE]
            /\ UNCHANGED <<lsMessages, nextId>>
       ELSE IF composeRecipientType = "user" /\ recipientValue = ""
       THEN /\ tab' = [tab EXCEPT ![t].composeError = E_EMPTY_RECIPIENT]
            /\ UNCHANGED <<lsMessages, nextId>>
       ELSE /\ lsMessages' = updatedMessages
            /\ nextId' = nextId + 1
            /\ tab' = [tab EXCEPT ![t] =
                    [@ EXCEPT !.messages = SortByTimestamp(updatedMessages),
                              !.composeError = ""]]
    /\ UNCHANGED <<lsUsers, lsSubmissions, lsNotifications>>

\* a marking that replaces the readers of the message by the current user
markMessageAsReadAlone(messages, messageId, username) ==
    [i \in 1..Len(messages) |->
        IF messages[i].id = messageId
        THEN [messages[i] EXCEPT !.readBy = {username}]
        ELSE messages[i]]

\* updatedMessages of markMessageAsRead
markMessageAsRead(messages, messageId, username) ==
    [i \in 1..Len(messages) |->
        IF messages[i].id = messageId
        THEN [messages[i] EXCEPT !.readBy = @ \cup {username}]
        ELSE messages[i]]

\* a click on the i-th message of the dialog, listed in the inbox or among
\* the sent messages
handleViewMessage(t, i) ==
    LET st == tab[t]
        user == Val(st.currentUser)
        message == st.messages[i]
        updatedMessages == markMessageAsRead(st.messages, message.id, user.username)
    IN
    /\ LoggedIn(t)
    /\ st.showInternalMessagesModal
    /\ i \in 1..Len(st.messages)
    /\ IsForUser(message, user) \/ message.senderUsername = user.username
    /\ IF IsForUser(message, user) /\ user.username \notin message.readBy
       THEN /\ lsMessages' = updatedMessages
            /\ tab' = [tab EXCEPT ![t].messages = SortByTimestamp(updatedMessages)]
       ELSE UNCHANGED <<lsMessages, tab>>
    /\ UNCHANGED <<lsUsers, lsSubmissions, lsNotifications, nextId>>

\* a deletion that drops every read message of the inbox, whoever read it
messagesToKeepUnreadByAll(messages, user) ==
    SelectSeq(messages, LAMBDA msg : IsForUser(msg, user) /\ msg.readBy = {})
        \o SelectSeq(messages, LAMBDA msg : ~IsForUser(msg, user))

\* messagesToKeep of handleDeleteReadInboxMessages
messagesToKeep(messages, user) ==
    SelectSeq(messages, LAMBDA msg : IsForUser(msg, user) /\ user.username \notin msg.readBy)
        \o SelectSeq(messages, LAMBDA msg : ~IsForUser(msg, user))

\* the Delete Read Inbox Messages button, confirmed; it is rendered while
\* the inbox lists a message the user has read
handleDeleteReadInboxMessages(t) ==
    LET st == tab[t]
        user == Val(st.currentUser)
        kept == messagesToKeep(st.messages, user)
    IN
    /\ LoggedIn(t)
    /\ st.showInternalMessagesModal
    /\ \E i \in 1..Len(st.messages) :
          IsForUser(st.messages[i], user) /\ user.username \in st.messages[i].readBy
    /\ lsMessages' = kept
    /\ tab' = [tab EXCEPT ![t].messages = SortByTimestamp(kept)]
    /\ UNCHANGED <<lsUsers, lsSubmissions, lsNotifications, nextId>>

----------------------------------------------------------------------------
(* UserManagementModal *)

\* the User Management button, rendered for Admin and University Lead; the
\* modal's effect runs fetchUsers
handleOpenUserManagement(t) ==
    /\ LoggedIn(t) /\ NoModal(t)
    /\ IsReviewer(RoleOf(t))
    /\ tab' = [tab EXCEPT ![t] = [@ EXCEPT !.showUserManagementModal = TRUE,
                                           !.users = ReadUsers,
                                           !.umError = "",
                                           !.successMessage = ""]]
    /\ UNCHANGED <<storeVars, nextId>>

handleCloseUserManagement(t) ==
    /\ LoggedIn(t)
    /\ tab[t].showUserManagementModal
    /\ tab' = [tab EXCEPT ![t] = [@ EXCEPT !.showUserManagementModal = FALSE,
                                           !.users = <<>>,
                                           !.umError = "",
                                           !.successMessage = ""]]
    /\ UNCHANGED <<storeVars, nextId>>

\* the checks of handleAddUser without the refusal of a Lead asking for an Admin
AddUserErrorLeadUnchecked(users, currentUserRole, newUsername, newPassword, newUserRole) ==
    IF Trim(newUsername) = "" \/ Trim(newPassword) = ""
    THEN "Username and password cannot be empty."
    ELSE IF \E i \in 1..Len(users) : Lower(users[i].username) = Lower(Trim(newUsername))
    THEN "Username already exists. Please choose a different username."
    ELSE IF currentUserRole = Lead /\ newUserRole = Lead
    THEN "University Leads cannot create other University Lead users."
    ELSE ""

\* a validation that lets a blank username or password through
AddUserErrorBlankUnchecked(users, currentUserRole, newUsername, newPassword, newUserRole) ==
    IF \E i \in 1..Len(users) : Lower(users[i].username) = Lower(Trim(newUsername))
    THEN "Username already exists. Please choose a different username."
    ELSE IF currentUserRole = Lead /\ newUserRole = Admin
    THEN "University Leads cannot create Admin users."
    ELSE IF currentUserRole = Lead /\ newUserRole = Lead
    THEN "University Leads cannot create other University Lead users."
    ELSE ""

\* the error handleAddUser sets, "" when it goes on to create the user
AddUserError(users, currentUserRole, newUsername, newPassword, newUserRole) ==
    IF Trim(newUsername) = "" \/ Trim(newPassword) = ""
    THEN "Username and password cannot be empty."
    ELSE IF \E i \in 1..Len(users) : Lower(users[i].username) = Lower(Trim(newUsername))
    THEN "Username already exists. Please choose a different username."
    ELSE IF currentUserRole = Lead /\ newUserRole = Admin
    THEN "University Leads cannot create Admin users."
    ELSE IF currentUserRole = Lead /\ newUserRole = Lead
    THEN "University Leads cannot create other University Lead users."
    ELSE ""

\* generateWelcomeMessageBody: which role-specific sections the body carries
generateWelcomeMessageBody(newUser) ==
    [ hello |-> newUser.username,
      roleSpecificInstructions |->
          IF newUser.role = UnivID THEN "As a University ID"
          ELSE IF newUser.role = Lead THEN "As a University Lead"
          ELSE IF newUser.role = Admin THEN "As an Admin"
          ELSE "" ]

\* a welcome message sent to the role of the new user instead
WelcomeMessageToRole(id, newUser) ==
    [ id |-> id,
      senderUsername |-> "DentEdTech System",
      senderRole |-> Admin,
      recipientIdentifier |-> [type |-> "role", value |-> newUser.role],
      subject |-> "Welcome to DentEdTech Accreditation Analyzer!",
      body |-> generateWelcomeMessageBody(newUser),
      timestamp |-> id,
      readBy |-> {} ]

\* const welcomeMessage: InternalMessage = {...}
WelcomeMessage(id, newUser) ==
    [ id |-> id,
      senderUsername |-> "DentEdTech System",
      senderRole |-> Admin,
      recipientIdentifier |-> [type |-> "user", value |-> newUser.username],
      subject |-> "Welcome to DentEdTech Accreditation Analyzer!",
      body |-> generateWelcomeMessageBody(newUser),
      timestamp |-> id,
      readBy |-> {} ]

\* the users written by handleAddUser: the modal's list plus the new user
UpdatedUsers(users, newUser) == Append(users, newUser)

USER_ADDED == "added successfully! A welcome message has been sent to their internal inbox."
USER_ADDED_NO_WELCOME == "added successfully, but the automated welcome message could not be sent."

\* handleAddUser; setItemOk is whether localStorage accepts the write of
\* the welcome message (setItem throws when the quota is exceeded)
handleAddUser(t, newUsername, newPassword, newUserRole, setItemOk) ==
    LET st == tab[t]
        error == AddUserError(st.users, RoleOf(t), newUsername, newPassword, newUserRole)
        newUser == StoredUser(Trim(newUsername), newUserRole, newPassword)
        updatedUsers == UpdatedUsers(st.users, newUser)
    IN
    /\ LoggedIn(t)
    /\ st.showUserManagementModal
    /\ IF error # ""
       THEN /\ tab' = [tab EXCEPT ![t] = [st EXCEPT !.umError = error, !.successMessage = ""]]
            /\ UNCHANGED <<lsUsers, lsMessages, nextId>>
       ELSE /\ lsUsers' = Some(updatedUsers)
            /\ nextId' = IF setItemOk THEN nextId + 1 ELSE nextId
            /\ lsMessages' = IF setItemOk
                             THEN Append(lsMessages, WelcomeMessage(nextId, newUser))
                             ELSE lsMessages
            /\ tab' = [tab EXCEPT ![t] = [st EXCEPT
                    !.users = updatedUsers,
                    !.umError = "",
                    !.successMessage = IF setItemOk THEN USER_ADDED ELSE USER_ADDED_NO_WELCOME]]
    /\ UNCHANGED <<lsSubmissions, lsNotifications>>

----------------------------------------------------------------------------
(* Specifications.  The caps that keep a run finite are guards here, not   *)
(* in the handlers.                                                        *)

Tabs == {"T1", "T2"}

u1 == StoredUser("u1", UnivID, "pw")

Settlements(n, outcomes) == [1..n -> outcomes]

CanStartAnalysis(t) == Len(tab[t].pendingAnalyses) < MaxInflight
CanStoreSubmission == Len(lsSubmissions) < MaxSubmissions
CanAddNote(t) == Len(tab[t].currentSubmissionNotes) < MaxNotes

\* the store after Admin has created the University ID user u1
StoreWithU1 ==
    /\ lsUsers = Some(Append(defaultUsers, u1))
    /\ lsSubmissions = <<>>
    /\ lsNotifications = <<>>
    /\ lsMessages = <<WelcomeMessage(1, u1)>>
    /\ nextId = 2

WorkflowTabs == {"T1"}
WorkflowLogins == {<<"admin", "adminpass">>, <<"u1", "pw">>}
WorkflowContents == {"", "c1"}
WorkflowBodies == {"ADA"}
WorkflowNoteTexts == {"n1"}
WorkflowOutcomes == { Fulfilled(<<ApiItem(ADA_1_1, Num(60), "")>>) }

\* the analyzer's inputs, the analysis and the submission, for the user of tab t
Analyze(t) ==
    \/ \E b \in WorkflowBodies : handleBodySelectionChange(t, b)
    \/ \E text \in WorkflowContents : setProgramContent(t, text)
    \/ CanStartAnalysis(t) /\ handleSubmitAnalysis(t)
    \/ \E i \in 1..MaxInflight, n \in 1..Cardinality(WorkflowBodies) :
          \E settled \in Settlements(n, WorkflowOutcomes) : CompleteAnalysis(t, i, settled)
    \/ CanStoreSubmission /\ handleSubmitForReview(t)

InitTabs == StoreWithU1 /\ tab = [t \in Tabs |-> LoggedOutTab]

InitWorkflow == StoreWithU1 /\ tab = [t \in WorkflowTabs |-> LoggedOutTab]

\* The submission workflow in one tab: the University ID user u1 analyses,
\* submits and revises; Admin reviews.
NextWorkflow ==
    \E t \in WorkflowTabs :
        \/ \E c \in WorkflowLogins : Login(t, c[1], c[2])
        \/ Logout(t)
        \/ LoggedIn(t) /\ RoleOf(t) = UnivID /\ Analyze(t)
        \/ \E i \in 1..MaxSubmissions : handleLoadForRevision(t, i)
        \/ handleCancelRevision(t)
        \/ \E i \in 1..MaxSubmissions : handleOpenSubmissionForReview(t, i)
        \/ handleCloseSubmissionReviewModal(t)
        \/ \E newStatus \in {"approved", "rejected"} : handleUpdateSubmissionStatus(t, newStatus)
        \/ \E text \in WorkflowNoteTexts : CanAddNote(t) /\ handleAddNote(t, text)

SpecWorkflow == InitWorkflow /\ [][NextWorkflow]_vars

ReviewerTab == "T2"

\* The workflow of tab T1 next to a second tab in which Admin reviews.
NextRevision ==
    \/ NextWorkflow
    \/ Login(ReviewerTab, "admin", "adminpass")
    \/ Logout(ReviewerTab)
    \/ \E i \in 1..MaxSubmissions : handleOpenSubmissionForReview(ReviewerTab, i)
    \/ handleCloseSubmissionReviewModal(ReviewerTab)
    \/ \E newStatus \in {"approved", "rejected"} :
          handleUpdateSubmissionStatus(ReviewerTab, newStatus)
    \/ \E text \in WorkflowNoteTexts :
          CanAddNote(ReviewerTab) /\ handleAddNote(ReviewerTab, text)

SpecRevision == InitTabs /\ [][NextRevision]_vars

\* The University ID user u1 works in two browser tabs over the same store.
NextTabs ==
    \E t \in Tabs :
        \/ Login(t, "u1", "pw")
        \/ Logout(t)
        \/ Analyze(t)

SpecTabs == InitTabs /\ [][NextTabs]_vars

\* the submission u1 made from an analysis of "c1" against ADA
SubmissionOfU1 ==
    [ id |-> 2,
      submittedByUsername |-> "u1",
      submittedByUserRole |-> UnivID,
      submittedAt |-> 2,
      programContent |-> "c1",
      analysisResults |->
          SuccessfulResults(<<"ADA">>, <<Fulfilled(<<ApiItem(ADA_1_1, Num(60), "")>>)>>),
      selectedBodyKeys |-> <<"ADA">>,
      status |-> "pending",
      notes |-> <<>> ]

\* the store once u1 has submitted
InitReview ==
    /\ lsUsers = Some(Append(defaultUsers, u1))
    /\ lsSubmissions = <<SubmissionOfU1>>
    /\ lsNotifications = <<>>
    /\ lsMessages = <<WelcomeMessage(1, u1)>>
    /\ nextId = 3
    /\ tab = [t \in Tabs |-> LoggedOutTab]

ReviewLogins == {<<"admin", "adminpass">>, <<"lead", "leadpass">>}
ReviewNoteTexts == {" ", "n1", "n2"}

\* the browser's "clear site data": every key of the origin is removed
ClearStorage ==
    /\ IsSome(lsUsers) \/ lsSubmissions # <<>>
    /\ lsUsers' = None
    /\ lsSubmissions' = <<>>
    /\ lsNotifications' = <<>>
    /\ lsMessages' = <<>>
    /\ UNCHANGED <<tab, nextId>>

\* Two reviewers, each in a tab, work on the pending submission of u1.
NextReview ==
    \/ ClearStorage
    \/ \E t \in Tabs :
        \/ \E c \in ReviewLogins : Login(t, c[1], c[2])
        \/ Logout(t)
        \/ \E i \in 1..MaxSubmissions : handleOpenSubmissionForReview(t, i)
        \/ handleCloseSubmissionReviewModal(t)
        \/ \E newStatus \in {"approved", "rejected"} : handleUpdateSubmissionStatus(t, newStatus)
        \/ \E text \in ReviewNoteTexts : CanAddNote(t) /\ handleAddNote(t, text)

SpecReview == InitReview /\ [][NextReview]_vars

\* the browser before the app was ever opened
InitRegistry ==
    /\ lsUsers = None
    /\ lsSubmissions = <<>>
    /\ lsNotifications = <<>>
    /\ lsMessages = <<>>
    /\ nextId = 1
    /\ tab = [t \in Tabs |-> UnstartedTab]

RegistryLogins ==
    {<<"admin", "adminpass">>, <<"lead", "leadpass">>, <<"bob", "pw">>,
     <<"admin", "wrong">>}
\* what the add-user form is submitted with: <<username, password, role>>
RegistryRequests ==
    {<<n, "pw", r>> : n \in {"bob", " Bob"}, r \in ALL_ROLES}
        \cup {<<" ", "pw", UnivID>>, <<"bob", " ", UnivID>>, <<"ADMIN", "pw", UnivID>>}

\* The user registry: the app starts in two tabs, users log in and the
\* reviewers create users.
NextRegistry ==
    \E t \in Tabs :
        \/ AppStart(t)
        \/ \E c \in RegistryLogins : Login(t, c[1], c[2])
        \/ Logout(t)
        \/ handleOpenUserManagement(t)
        \/ handleCloseUserManagement(t)
        \/ \E r \in RegistryRequests, setItemOk \in BOOLEAN :
              handleAddUser(t, r[1], r[2], r[3], setItemOk)

SpecRegistry == InitRegistry /\ [][NextRegistry]_vars

LoginAttempts ==
    {<<"admin", "adminpass">>, <<"ADMIN", "adminpass">>, <<"admin", "wrong">>,
     <<"lead", "leadpass">>, <<"bob", "pw">>, <<"Bob", "pw">>, <<"bob", "wrong">>}
LoginRequests == {<<"bob", "pw", UnivID>>}

\* a welcome message takes the next id: MaxCreated caps the run
CanCreateUser == nextId <= MaxCreated

\* Logging in: the app starts in two tabs, users log in with right and
\* wrong credentials, reviewers create bob, and the browser may clear the
\* site's data while the app is open.
NextLogin ==
    \/ \E t \in Tabs :
        \/ AppStart(t)
        \/ \E c \in LoginAttempts : Login(t, c[1], c[2])
        \/ Logout(t)
        \/ handleOpenUserManagement(t)
        \/ handleCloseUserManagement(t)
        \/ \E r \in LoginRequests :
              CanCreateUser /\ handleAddUser(t, r[1], r[2], r[3], TRUE)
    \/ ClearStorage

SpecLogin == InitRegistry /\ [][NextLogin]_vars

\* ids as the AI may return them for a standard of ADA: the catalog id, the
\* id in lower case with a blank, the id stripped to letters and digits, an
\* id of another body, the literal N/A and no id at all
ADA_1_1_SPACED == <<"a", "d", "a", " ", "-", "1", ".", "1">>
ADA_1_1_BARE == <<"a", "d", "a", "1", "1">>
ReconcileIds == {ADA_1_1, ADA_1_1_SPACED, ADA_1_1_BARE, GDC_1_0, NA, <<>>}
ReconcilePercentages == {Num(150), Num(-5), Num(60), Num(80), NotANumber}
ReconcileReasonings == {"", "Lacks X."}
ReconcileOutcomes ==
    { Fulfilled(<<ApiItem(id, mp, reasoning)>>) :
        id \in ReconcileIds, mp \in ReconcilePercentages,
        reasoning \in ReconcileReasonings }

\* The reconciliation of a response: u1 analyses content against ADA and
\* the response holds one item, with any of the ids, percentages and
\* reasonings above.
NextReconcile ==
    \E t \in WorkflowTabs :
        \/ Login(t, "u1", "pw")
        \/ Logout(t)
        \/ handleBodySelectionChange(t, "ADA")
        \/ \E text \in WorkflowContents : setProgramContent(t, text)
        \/ CanStartAnalysis(t) /\ handleSubmitAnalysis(t)
        \/ \E o \in ReconcileOutcomes : CompleteAnalysis(t, 1, <<o>>)

SpecReconcile == InitWorkflow /\ [][NextReconcile]_vars

\* the store once Admin has rejected the submission of u1
InitAnalysis ==
    /\ lsUsers = Some(Append(defaultUsers, u1))
    /\ lsSubmissions = UpdatedSubmissions(<<SubmissionOfU1>>, 2, "rejected", <<>>)
    /\ lsNotifications = <<NotificationForSubmitter(3, SubmissionOfU1, "rejected")>>
    /\ lsMessages = <<WelcomeMessage(1, u1)>>
    /\ nextId = 4
    /\ tab = [t \in WorkflowTabs |-> LoggedOutTab]

AnalysisBodies == {"ADA", "GDC"}

\* what the promise of one body may settle to
AnalysisOutcomes(bodyKey) ==
    { Fulfilled(<<ApiItem(BodyOf(bodyKey).standards[1].id, Num(60), "")>>),
      CallError, DecodeFailure, MissingResults(bodyKey) }

\* settledResults for the selected bodies, in the order of the selection
AnalysisSettlements(bodyKeys) ==
    { settled \in Settlements(Len(bodyKeys),
                      UNION {AnalysisOutcomes(b) : b \in AnalysisBodies}) :
         \A k \in 1..Len(bodyKeys) : settled[k] \in AnalysisOutcomes(bodyKeys[k]) }

CanStartRun(t) == Len(tab[t].pendingAnalyses) < MaxRuns

\* Analyses of several bodies: u1 selects bodies, analyses, loads the
\* rejected submission for revision and analyses again; each call succeeds
\* or fails in one of three ways.
NextAnalysis ==
    \E t \in WorkflowTabs :
        \/ Login(t, "u1", "pw")
        \/ Logout(t)
        \/ \E b \in AnalysisBodies : handleBodySelectionChange(t, b)
        \/ \E text \in WorkflowContents : setProgramContent(t, text)
        \/ CanStartRun(t) /\ handleSubmitAnalysis(t)
        \/ \E i \in 1..Len(tab[t].pendingAnalyses) :
              \E settled \in AnalysisSettlements(tab[t].pendingAnalyses[i].bodyKeys) :
                 CompleteAnalysis(t, i, settled)
        \/ \E i \in 1..MaxSubmissions : handleLoadForRevision(t, i)
        \/ handleCancelRevision(t)

SpecAnalysis == InitAnalysis /\ [][NextAnalysis]_vars

\* the submission University Lead made from the same analysis
SubmissionOfLead ==
    [SubmissionOfU1 EXCEPT !.id = 3, !.submittedAt = 3,
                           !.submittedByUsername = "lead",
                           !.submittedByUserRole = Lead]

\* the store once u1 and University Lead have each submitted
InitNotifications ==
    /\ lsUsers = Some(Append(defaultUsers, u1))
    /\ lsSubmissions = <<SubmissionOfU1, SubmissionOfLead>>
    /\ lsNotifications = <<>>
    /\ lsMessages = <<WelcomeMessage(1, u1)>>
    /\ nextId = 4
    /\ tab = [t \in Tabs |-> LoggedOutTab]

NotificationLogins == {<<"lead", "leadpass">>, <<"u1", "pw">>}

\* Submission notifications: University Lead decides the two pending
\* submissions, u1 and University Lead read and clear their notifications,
\* in two tabs.
NextNotifications ==
    \E t \in Tabs :
        \/ \E c \in NotificationLogins : Login(t, c[1], c[2])
        \/ Logout(t)
        \/ \E i \in 1..MaxSubmissions : handleOpenSubmissionForReview(t, i)
        \/ handleCloseSubmissionReviewModal(t)
        \/ \E newStatus \in {"approved", "rejected"} : handleUpdateSubmissionStatus(t, newStatus)
        \/ handleOpenSubmissionNotificationsModal(t)
        \/ handleCloseSubmissionNotificationsModal(t)
        \/ clearReadSubmissionNotificationsFromStorage(t)

SpecNotifications == InitNotifications /\ [][NextNotifications]_vars

\* a second University Lead, created by Admin
l2 == StoredUser("l2", Lead, "pw")

\* the store after Admin has created l2
InitMessages ==
    /\ lsUsers = Some(Append(defaultUsers, l2))
    /\ lsSubmissions = <<>>
    /\ lsNotifications = <<>>
    /\ lsMessages = <<WelcomeMessage(1, l2)>>
    /\ nextId = 2
    /\ tab = [t \in Tabs |-> LoggedOutTab]

\* what the compose form is sent with: <<recipient type, recipient, subject>>
ComposeInputs == {<<"role", Lead, "s">>, <<"user", " ", "s">>, <<"role", Lead, " ">>}

\* a sent message takes the next id: MaxMessages caps the run
CanSendMessage == nextId <= MaxMessages

\* Internal messages: the two University Leads, each in a tab, send
\* messages to their role, read them and delete the read ones.
NextMessages ==
    \E t \in Tabs :
        \/ \E c \in {<<"lead", "leadpass">>, <<"l2", "pw">>} : Login(t, c[1], c[2])
        \/ Logout(t)
        \/ handleOpenInternalMessages(t)
        \/ handleCloseInternalMessages(t)
        \/ \E m \in ComposeInputs :
              CanSendMessage /\ handleSendMessage(t, m[1], m[2], m[3], "b")
        \/ \E i \in 1..MaxMessages : handleViewMessage(t, i)
        \/ handleDeleteReadInboxMessages(t)

SpecMessages == InitMessages /\ [][NextMessages]_vars

----------------------------------------------------------------------------
(* The submission workflow: one pending submission, create                  *)

PendingOf(username, submissions) ==
    {i \in 1..Len(submissions) :
        submissions[i].submittedByUsername = username /\ submissions[i].status = "pending"}

\* C1: in every reachable state, a University ID user has at most one
\* pending submission in the submissions store.
C1_OnePendingPerUniversityId ==
    \A i \in 1..Len(lsSubmissions) :
        lsSubmissions[i].submittedByUserRole = UnivID
            => Cardinality(PendingOf(lsSubmissions[i].submittedByUsername, lsSubmissions)) <= 1

\* the conditions under which the contract says create fails
CreateMustFail(t) ==
    \/ tab[t].programContent = ""
    \/ IsNone(tab[t].analysisResults)
    \/ Val(tab[t].analysisResults) = <<>>
    \/ (RoleOf(t) = UnivID /\ PendingOf(UsernameOf(t), lsSubmissions) # {})

\* C2: submit for review leaves the submissions store unchanged when the
\* content is empty, the results are empty or the University ID submitter
\* already has a pending submission in the store; otherwise it appends
\* exactly one pending submission of the current user with a fresh id.
C2_CreateContract ==
    [][\A t \in DOMAIN tab :
         handleSubmitForReview(t) =>
            IF CreateMustFail(t)
            THEN lsSubmissions' = lsSubmissions
            ELSE /\ Len(lsSubmissions') = Len(lsSubmissions) + 1
                 /\ SubSeq(lsSubmissions', 1, Len(lsSubmissions)) = lsSubmissions
                 /\ LET new == lsSubmissions'[Len(lsSubmissions')]
                    IN  /\ new.status = "pending"
                        /\ new.submittedByUsername = UsernameOf(t)
                        /\ \A i \in 1..Len(lsSubmissions) : lsSubmissions[i].id # new.id]_vars

----------------------------------------------------------------------------
(* Review: status, notification, notes                                      *)

\* s is a prefix of r
IsPrefix(s, r) == Len(s) <= Len(r) /\ SubSeq(r, 1, Len(s)) = s

\* C3: once the stored status of a submission is approved or rejected, no
\* later step changes that stored status.
C3_DecidedStatusIsFinal ==
    [][\A i \in 1..Len(lsSubmissions), j \in 1..Len(lsSubmissions') :
         (lsSubmissions[i].id = lsSubmissions'[j].id /\ lsSubmissions[i].status # "pending")
            => lsSubmissions'[j].status = lsSubmissions[i].status]_vars

\* C4: a review of a submission found in the store adds exactly one
\* notification, to the submitter, unread, related to the submission and
\* naming the decision; a review of a submission not found in the store adds
\* no notification and changes no submission.
C4_ReviewNotifiesOnce ==
    [][\A t \in DOMAIN tab, newStatus \in {"approved", "rejected"} :
         handleUpdateSubmissionStatus(t, newStatus) =>
            LET id == Val(tab[t].selectedSubmissionForReview).id
                k == SubmissionIndex(lsSubmissions, id)
            IN  IF k > 0
                THEN /\ Len(lsNotifications') = Len(lsNotifications) + 1
                     /\ SubSeq(lsNotifications', 1, Len(lsNotifications)) = lsNotifications
                     /\ LET n == lsNotifications'[Len(lsNotifications')]
                        IN  /\ n.recipientUsername = lsSubmissions[k].submittedByUsername
                            /\ n.isRead = FALSE
                            /\ n.relatedSubmissionId = id
                            /\ n.message.status = newStatus
                ELSE /\ lsNotifications' = lsNotifications
                     /\ lsSubmissions' = lsSubmissions]_vars

\* a review has been stored and its one notification is in the store
C4_Witness ==
    /\ Len(lsSubmissions) = 1
    /\ lsSubmissions[1].status = "rejected"
    /\ Len(lsNotifications) = 1
    /\ lsNotifications[1].recipientUsername = "u1"
    /\ lsNotifications[1].relatedSubmissionId = lsSubmissions[1].id

\* C5: while a submission is pending, every step keeps its stored notes as a
\* prefix of the notes stored after the step.
C5_NotesAppendOnly ==
    [][\A i \in 1..Len(lsSubmissions), j \in 1..Len(lsSubmissions') :
         (lsSubmissions[i].id = lsSubmissions'[j].id /\ lsSubmissions[i].status = "pending")
            => IsPrefix(lsSubmissions[i].notes, lsSubmissions'[j].notes)]_vars

\* C6: addNote leaves the submissions store unchanged when the note text is
\* empty or whitespace or when the stored status of the submission is not
\* pending.
C6_AddNoteRejected ==
    [][\A t \in DOMAIN tab, text \in ReviewNoteTexts :
         handleAddNote(t, text) =>
            LET k == SubmissionIndex(lsSubmissions, Val(tab[t].selectedSubmissionForReview).id)
            IN  (Trim(text) = "" \/ (k > 0 /\ lsSubmissions[k].status # "pending"))
                    => lsSubmissions' = lsSubmissions]_vars

----------------------------------------------------------------------------
(* Revision                                                                 *)

Decided(status) == status = "approved" \/ status = "rejected"

\* C7: loading a past submission for revision leaves the submissions store
\* unchanged; a create from the draft appends a pending submission whose id
\* is not the original's and whose notes are the stored notes of the
\* original, and the original stays in the store with a decided status.
C7_RevisionKeepsOriginal ==
    [][\A t \in DOMAIN tab :
         /\ \A i \in 1..MaxSubmissions :
              handleLoadForRevision(t, i) => lsSubmissions' = lsSubmissions
         /\ (handleSubmitForReview(t) /\ IsSome(tab[t].revisingSubmissionInfo)
                /\ tab[t].programContent # "")
              => LET draft == Val(tab[t].revisingSubmissionInfo)
                     k == SubmissionIndex(lsSubmissions, draft.id)
                     new == lsSubmissions'[Len(lsSubmissions')]
                 IN  /\ Len(lsSubmissions') = Len(lsSubmissions) + 1
                     /\ SubSeq(lsSubmissions', 1, Len(lsSubmissions)) = lsSubmissions
                     /\ new.id # draft.id
                     /\ new.status = "pending"
                     /\ k > 0
                     /\ new.notes = lsSubmissions[k].notes
                     /\ Decided(lsSubmissions'[k].status)]_vars

----------------------------------------------------------------------------
(* The user registry                                                        *)

UsernameTaken(newUsername) ==
    \E i \in 1..Len(ReadUsers) : Lower(ReadUsers[i].username) = Lower(Trim(newUsername))

\* a step of the user-management dialog of tab t other than its closing:
\* handleAddUser is the only handler the open dialog offers
AddUserStep(t) ==
    /\ LoggedIn(t)
    /\ tab[t].showUserManagementModal
    /\ tab'[t].showUserManagementModal
    /\ tab'[t] # tab[t]

\* ... that ended with the success message
AddUserSucceeded(t) == AddUserStep(t) /\ tab'[t].umError = ""

\* C8: no two stored users have usernames equal ignoring case, and no add
\* succeeds for a username that matches a stored username in any casing.
C8_UsernamesUnique ==
    [][/\ \A i, j \in 1..Len(ReadUsers') :
             Lower(ReadUsers'[i].username) = Lower(ReadUsers'[j].username) => i = j
       /\ \A t \in DOMAIN tab :
             AddUserSucceeded(t) =>
                \A r \in RegistryRequests, setItemOk \in BOOLEAN :
                   handleAddUser(t, r[1], r[2], r[3], setItemOk) => ~UsernameTaken(r[1])]_vars

\* C9: an add requested by a University Lead for an Admin or University
\* Lead user never succeeds, and a refused add leaves users and messages as
\* they were; the user a Lead adds is a University ID user; an Admin's add
\* with a fresh name and a password succeeds for each of the three roles;
\* a University ID user is never in the user-management dialog, and the
\* seeded registry changes only by a successful add.
C9_RoleRules ==
    [][/\ \A t \in DOMAIN tab :
            /\ (LoggedIn(t) /\ RoleOf(t) = UnivID) => ~tab[t].showUserManagementModal
            /\ (AddUserStep(t) /\ tab'[t].umError # "")
                  => (lsUsers' = lsUsers /\ lsMessages' = lsMessages)
            /\ (AddUserSucceeded(t) /\ RoleOf(t) = Lead)
                  => /\ ReadUsers'[Len(ReadUsers')].role = UnivID
                     /\ \A r \in RegistryRequests, setItemOk \in BOOLEAN :
                           r[3] \in {Admin, Lead}
                              => ~handleAddUser(t, r[1], r[2], r[3], setItemOk)
            /\ (AddUserStep(t) /\ RoleOf(t) = Admin /\ ~UsernameTaken("bob")
                  /\ tab[t].users = ReadUsers /\ tab'[t].umError # "")
                  => \A newUserRole \in ALL_ROLES :
                        ~handleAddUser(t, "bob", "pw", newUserRole, TRUE)
       /\ (IsSome(lsUsers) /\ lsUsers' # lsUsers)
             => \E t \in DOMAIN tab : AddUserSucceeded(t)]_vars

\* a University Lead has just been refused an Admin user, in a registry to
\* which an Admin user "bob" was added
C9_Witness ==
    /\ \E t \in DOMAIN tab :
          /\ LoggedIn(t) /\ RoleOf(t) = Lead
          /\ tab[t].umError = "University Leads cannot create Admin users."
    /\ \E i \in 1..Len(ReadUsers) :
          ReadUsers[i].username = "bob" /\ ReadUsers[i].role = Admin

----------------------------------------------------------------------------
(* Login *)

\* a login attempt is made in tab t and changes what the tab shows
LoginStep(t) ==
    /\ tab[t].appReady
    /\ IsNone(tab[t].currentUser)
    /\ tab'[t] # tab[t]
    /\ UNCHANGED <<storeVars, nextId>>

\* the stored users whose username is the given one in some casing and
\* whose password is exactly the given one
MatchingUsers(username, password) ==
    {i \in 1..Len(ReadUsers) :
        /\ Lower(ReadUsers[i].username) = Lower(username)
        /\ ReadUsers[i].password = password}

IsSeedCredential(username, password) ==
    \/ Lower(username) = "admin" /\ password = "adminpass"
    \/ Lower(username) = "lead" /\ password = "leadpass"

\* C11: a login succeeds with the stored user's role when a stored user
\* matches the username ignoring case and the password exactly; the two
\* seed credentials are accepted only when the registry is empty; every
\* other attempt fails and leaves no user logged in.
C11_LoginContract ==
    [][\A t \in DOMAIN tab :
          LoginStep(t) =>
             \A c \in LoginAttempts :
                Login(t, c[1], c[2]) =>
                   LET m == MatchingUsers(c[1], c[2])
                   IN  IF m # {}
                       THEN \E i \in m :
                               tab'[t].currentUser =
                                  Some(User(ReadUsers[i].username, ReadUsers[i].role))
                       ELSE IF ReadUsers = <<>> /\ IsSeedCredential(c[1], c[2])
                       THEN /\ IsSome(tab'[t].currentUser)
                            /\ Val(tab'[t].currentUser).role
                                  = (IF Lower(c[1]) = "admin" THEN Admin ELSE Lead)
                       ELSE IsNone(tab'[t].currentUser)]_vars

\* C12: once the app has started on an empty store, admin/adminpass logs
\* in as Admin, lead/leadpass as University Lead and admin/wrong is
\* refused, whatever users have been created since.
C12_SeedLogins ==
    [][/\ (\E t \in DOMAIN tab : tab'[t].appReady) =>
             /\ LoginResult(ReadUsers', "admin", "adminpass") = Some(User("admin", Admin))
             /\ LoginResult(ReadUsers', "lead", "leadpass") = Some(User("lead", Lead))
             /\ LoginResult(ReadUsers', "admin", "wrong") = None
       /\ \A t \in DOMAIN tab :
             LoginStep(t) =>
                /\ Login(t, "admin", "adminpass") =>
                      tab'[t].currentUser = Some(User("admin", Admin))
                /\ Login(t, "lead", "leadpass") =>
                      tab'[t].currentUser = Some(User("lead", Lead))
                /\ Login(t, "admin", "wrong") =>
                      IsNone(tab'[t].currentUser) /\ tab'[t].loginError]_vars

\* with bob created, one tab is logged in as admin and the other has just
\* been refused
C12_Witness ==
    /\ Len(ReadUsers) = 3
    /\ tab["T1"].currentUser = Some(User("admin", Admin))
    /\ tab["T2"].appReady /\ tab["T2"].loginError

\* C13: a login with a non-empty username that is no stored user and is
\* not admin or lead logs the user in as a University ID user, whatever
\* the password.
C13_AnyOtherUsernameLogsIn ==
    [][\A t \in DOMAIN tab :
          LoginStep(t) =>
             \A c \in LoginAttempts :
                (/\ Login(t, c[1], c[2])
                 /\ FindUser(ReadUsers, c[1]) = 0
                 /\ Lower(c[1]) \notin {"admin", "lead"})
                   => /\ IsSome(tab'[t].currentUser)
                      /\ Val(tab'[t].currentUser).role = UnivID]_vars

----------------------------------------------------------------------------
(* The reconciliation of an AI response *)

\* an analysis in flight in tab t completes in this step
AnalysisCompletes(t) ==
    /\ LoggedIn(t) /\ IsSome(tab'[t].currentUser)
    /\ Len(tab'[t].pendingAnalyses) < Len(tab[t].pendingAnalyses)

\* every item tab t shows, with the key of the body of its group
ShownItems(t) ==
    IF IsNone(tab[t].analysisResults) THEN {}
    ELSE LET groups == Val(tab[t].analysisResults)
         IN  UNION { { <<groups[g].accreditationBodyKey, groups[g].items[k]>> :
                          k \in 1..Len(groups[g].items) } :
                     g \in 1..Len(groups) }

CatalogIds(bodyKey) ==
    {BodyOf(bodyKey).standards[i].id : i \in 1..Len(BodyOf(bodyKey).standards)}

\* C14: the returned id "ada11" is reconciled to the catalog id "ADA-1.1";
\* in general a returned id is matched to the catalog standard whose id is
\* equal to it after lower-casing and removing whitespace and hyphens.
C14_IdReconciled ==
    [][\A t \in DOMAIN tab :
          AnalysisCompletes(t) =>
             \A o \in ReconcileOutcomes :
                CompleteAnalysis(t, 1, <<o>>) =>
                   LET id == o.results[1].standardId
                       items == Val(tab'[t].analysisResults)[1].items
                   IN  /\ id = ADA_1_1_BARE =>
                             Len(items) = 1 /\ items[1].standardId = ADA_1_1
                       /\ \A c \in CatalogIds("ADA") :
                             normalizeId(c) = normalizeId(id) =>
                                Len(items) = 1 /\ items[1].standardId = c]_vars

\* C15: every item of a result group of body B carries the id of a standard
\* of B's catalog; an item whose returned id matches no catalog standard is
\* not in the group.
C15_ItemsAreCatalogStandards ==
    \A t \in DOMAIN tab :
       \A shown \in ShownItems(t) : shown[2].standardId \in CatalogIds(shown[1])

\* C16: the stored matchPercentage is within 0..100: above 100 is stored
\* as 100, below 0 as 0, inside the range unchanged, and a value that is
\* not a number as 0.
C16_PercentageClamped ==
    [][\A t \in DOMAIN tab :
          AnalysisCompletes(t) =>
             \A o \in ReconcileOutcomes :
                CompleteAnalysis(t, 1, <<o>>) =>
                   LET mp == o.results[1].matchPercentage
                       items == Val(tab'[t].analysisResults)[1].items
                   IN  \A k \in 1..Len(items) :
                          LET stored == items[k].matchPercentage
                          IN  /\ stored \in 0..100
                              /\ mp.isNumber /\ mp.value > 100 => stored = 100
                              /\ mp.isNumber /\ mp.value < 0 => stored = 0
                              /\ mp.isNumber /\ mp.value \in 0..100 => stored = mp.value
                              /\ ~mp.isNumber => stored = 0]_vars

\* the shown item was returned with 150 and no reasoning: stored as 100
C16_Witness ==
    \E t \in DOMAIN tab :
       \E shown \in ShownItems(t) :
          /\ shown[2].standardId = ADA_1_1
          /\ shown[2].matchPercentage = 100
          /\ shown[2].reasoning = ""

\* C17: an item whose stored matchPercentage is below 75 has a reasoning,
\* the AI's or the synthesized placeholder, whatever matchPercentage was
\* returned.
C17_ReasoningBelow75 ==
    \A t \in DOMAIN tab :
       \A shown \in ShownItems(t) :
          shown[2].matchPercentage < 75 => shown[2].reasoning # ""

----------------------------------------------------------------------------
(* Analyses of several bodies *)

\* the bodies of the selection whose call failed
FailedBodies(bodyKeys, settled) ==
    {bodyKeys[k] : k \in {j \in 1..Len(bodyKeys) : ~settled[j].ok}}

\* the line of the error banner carries the key or the name of the body
NamesBody(line, bodyKey) ==
    \/ bodyKey \in SeqToSet(line.detail)
    \/ BodyOf(bodyKey).name \in SeqToSet(line.detail)

\* C18: when some calls of an analysis succeed and some fail, the results
\* hold exactly one group for each body that succeeded and none for a body
\* that failed, and the warning names each body that failed.
C18_PartialFailure ==
    [][\A t \in DOMAIN tab :
          AnalysisCompletes(t) =>
             \A i \in 1..Len(tab[t].pendingAnalyses) :
                LET bodyKeys == tab[t].pendingAnalyses[i].bodyKeys
                IN  \A settled \in AnalysisSettlements(bodyKeys) :
                       (/\ CompleteAnalysis(t, i, settled)
                        /\ \E k \in 1..Len(settled) : settled[k].ok
                        /\ \E k \in 1..Len(settled) : ~settled[k].ok)
                          => /\ IsSome(tab'[t].analysisResults)
                             /\ LET groups == Val(tab'[t].analysisResults)
                                IN  /\ Len(groups) = Cardinality(
                                           {k \in 1..Len(settled) : settled[k].ok})
                                    /\ \A k \in 1..Len(settled) :
                                          Cardinality({g \in 1..Len(groups) :
                                              groups[g].accreditationBodyKey = bodyKeys[k]})
                                             = (IF settled[k].ok THEN 1 ELSE 0)
                             /\ \A b \in FailedBodies(bodyKeys, settled) :
                                   \E l \in 1..Len(tab'[t].error) :
                                      NamesBody(tab'[t].error[l], b)]_vars

\* C19: when every call of an analysis fails, no results are shown (not
\* those of an earlier run either), the error is the one aggregate failure
\* message, and the loading flag is cleared.
C19_TotalFailure ==
    [][\A t \in DOMAIN tab :
          AnalysisCompletes(t) =>
             \A i \in 1..Len(tab[t].pendingAnalyses) :
                \A settled \in AnalysisSettlements(tab[t].pendingAnalyses[i].bodyKeys) :
                   (/\ CompleteAnalysis(t, i, settled)
                    /\ \A k \in 1..Len(settled) : ~settled[k].ok)
                      => /\ IsNone(tab'[t].analysisResults)
                         /\ tab'[t].error = ErrLine(E_ALL_FAILED)
                         /\ ~tab'[t].isLoading]_vars

----------------------------------------------------------------------------
(* Submission notifications *)

\* C20: clearing the read notifications of a user removes from the store
\* exactly the notifications addressed to that user that are read; every
\* notification of another recipient and every unread one of this user is
\* still stored, unchanged and in the same order, and clearing with
\* nothing read changes nothing.
C20_ClearReadExact ==
    [][\A t \in DOMAIN tab :
          clearReadSubmissionNotificationsFromStorage(t) =>
             LET user == UsernameOf(t)
                 before == SeqToSet(lsNotifications)
                 after == SeqToSet(lsNotifications')
                 removed == {n \in before : n.recipientUsername = user /\ n.isRead}
             IN  /\ after = before \ removed
                 /\ Len(lsNotifications') = Len(lsNotifications) - Cardinality(removed)
                 /\ \A i, j \in 1..Len(lsNotifications') :
                       i < j => lsNotifications'[i].id < lsNotifications'[j].id
                 /\ removed = {} => lsNotifications' = lsNotifications]_vars

\* u1 has the dialog open after a clearing: a notification was removed from
\* the store, which still holds an unread notification of u1 and a
\* notification of University Lead
C20_Witness ==
    /\ Len(lsNotifications) < nextId - 4
    /\ \E t \in DOMAIN tab :
          /\ LoggedIn(t) /\ UsernameOf(t) = "u1"
          /\ tab[t].showSubmissionNotificationsModal
          /\ tab[t].currentUserSubmissionNotifications # <<>>
          /\ \A i \in 1..Len(tab[t].currentUserSubmissionNotifications) :
                ~tab[t].currentUserSubmissionNotifications[i].isRead
    /\ \E i \in 1..Len(lsNotifications) :
          lsNotifications[i].recipientUsername = "u1" /\ ~lsNotifications[i].isRead
    /\ \E i \in 1..Len(lsNotifications) : lsNotifications[i].recipientUsername = "lead"

----------------------------------------------------------------------------
(* Analysis runs and the submissions made from them *)

\* C29: at most one analysis is in flight in a tab: while one is loading
\* no second one starts, also while a past submission is loaded for
\* revision.
C29_OneRunInFlight ==
    [][\A t \in DOMAIN tab :
          Len(tab'[t].pendingAnalyses) > Len(tab[t].pendingAnalyses) =>
             /\ ~tab[t].isLoading
             /\ tab[t].pendingAnalyses = <<>>]_vars

\* C30: a stored submission holds the content and the body selection that
\* were analysed for its results: every group of its analysisResults is of
\* a body of its selectedBodyKeys.
C30_SubmissionMatchesAnalysis ==
    \A i \in 1..Len(lsSubmissions) :
       \A g \in 1..Len(lsSubmissions[i].analysisResults) :
          lsSubmissions[i].analysisResults[g].accreditationBodyKey
             \in SeqToSet(lsSubmissions[i].selectedBodyKeys)

----------------------------------------------------------------------------
(* Who changes the status of a submission *)

\* C25: the status of a stored submission is changed only from the tab of
\* an Admin or a University Lead; a University ID user is offered no review
\* dialog and no pending-review list, and a submission enters the store as
\* pending.
C25_StatusByReviewersOnly ==
    [][/\ \A i \in 1..Len(lsSubmissions), j \in 1..Len(lsSubmissions') :
             (/\ lsSubmissions[i].id = lsSubmissions'[j].id
              /\ lsSubmissions[i].status # lsSubmissions'[j].status)
                => \A t \in DOMAIN tab :
                      tab'[t] # tab[t] =>
                         LoggedIn(t) /\ RoleOf(t) \in {Admin, Lead}
       /\ \A j \in 1..Len(lsSubmissions') :
             (\A i \in 1..Len(lsSubmissions) : lsSubmissions[i].id # lsSubmissions'[j].id)
                => lsSubmissions'[j].status = "pending"
       /\ \A t \in DOMAIN tab :
             (LoggedIn(t) /\ RoleOf(t) = UnivID)
                => /\ IsNone(tab[t].selectedSubmissionForReview)
                   /\ tab[t].submissionsForReview = <<>>]_vars

\* u1 is logged in while the store holds a pending submission of u1 next to
\* a decided one
C25_Witness ==
    /\ \E t \in DOMAIN tab : LoggedIn(t) /\ RoleOf(t) = UnivID
    /\ \E i \in 1..Len(lsSubmissions) : lsSubmissions[i].status = "pending"
    /\ \E i \in 1..Len(lsSubmissions) : lsSubmissions[i].status = "rejected"

----------------------------------------------------------------------------
(* A refused createUser *)

\* the request is one the dialog of tab t has to refuse: a blank username
\* or password, a username its list already holds, or a role the requester
\* may not give
RequestMustFail(t, r) ==
    \/ Trim(r[1]) = "" \/ Trim(r[2]) = ""
    \/ \E i \in 1..Len(tab[t].users) :
          Lower(tab[t].users[i].username) = Lower(Trim(r[1]))
    \/ RoleOf(t) = Lead /\ r[3] \in {Admin, Lead}

\* C26: a createUser that fails (blank username or password, duplicate
\* username, role not permitted for the requester) leaves the user registry
\* and the internal messages as they were.
C26_FailedAddChangesNothing ==
    [][\A t \in DOMAIN tab :
          /\ (AddUserStep(t) /\ tab'[t].umError # "")
                => UNCHANGED <<lsUsers, lsMessages>>
          /\ AddUserSucceeded(t) =>
                \A r \in RegistryRequests, setItemOk \in BOOLEAN :
                   handleAddUser(t, r[1], r[2], r[3], setItemOk) => ~RequestMustFail(t, r)]_vars

\* with bob stored and welcomed, a dialog has just refused a duplicate
C26_Witness ==
    /\ \E i \in 1..Len(ReadUsers) : ReadUsers[i].username = "bob"
    /\ \E i \in 1..Len(lsMessages) : lsMessages[i].recipientIdentifier.value = "bob"
    /\ \E t \in DOMAIN tab :
          /\ tab[t].showUserManagementModal
          /\ tab[t].umError = "Username already exists. Please choose a different username."

----------------------------------------------------------------------------
(* Internal messages *)

MessageIds(messages) == {messages[i].id : i \in 1..Len(messages)}
MessageOf(messages, id) == messages[FindIndex(messages, LAMBDA m : m.id = id)]

\* C21: read state never reverts: a stored notification that is read stays
\* read, and a username in the readBy of a stored message stays in it for
\* as long as the message is stored.
C21_ReadNeverReverts ==
    [][/\ \A i \in 1..Len(lsNotifications), j \in 1..Len(lsNotifications') :
             (lsNotifications[i].id = lsNotifications'[j].id /\ lsNotifications[i].isRead)
                => lsNotifications'[j].isRead
       /\ \A id \in MessageIds(lsMessages) \cap MessageIds(lsMessages') :
             MessageOf(lsMessages, id).readBy \subseteq MessageOf(lsMessages', id).readBy]_vars

\* tab t marks a message read in this step
MarksRead(t) ==
    /\ LoggedIn(t)
    /\ tab[t].showInternalMessagesModal
    /\ lsMessages' # lsMessages
    /\ \E i \in 1..Len(tab[t].messages) : handleViewMessage(t, i)

\* C22: marking a message read twice in succession leaves the store as
\* marking it once does, and the marking changes the readBy of no other
\* message.
C22_MarkReadIdempotent ==
    [][\A t \in DOMAIN tab :
          MarksRead(t) =>
             \A i \in 1..Len(tab[t].messages) :
                handleViewMessage(t, i) =>
                   LET id == tab[t].messages[i].id
                   IN  /\ markMessageAsRead(tab'[t].messages, id, UsernameOf(t)) = lsMessages'
                       /\ \A other \in (MessageIds(lsMessages) \cap MessageIds(lsMessages')) \ {id} :
                             MessageOf(lsMessages', other).readBy
                                = MessageOf(lsMessages, other).readBy]_vars

\* C28: sending a message or marking one read removes no message from the
\* store.
C28_SendAndReadKeepMessages ==
    [][\A t \in DOMAIN tab :
          (/\ LoggedIn(t) /\ tab[t].showInternalMessagesModal
           /\ \/ \E i \in 1..Len(tab[t].messages) : handleViewMessage(t, i)
              \/ \E m \in ComposeInputs : handleSendMessage(t, m[1], m[2], m[3], "b"))
             => MessageIds(lsMessages) \subseteq MessageIds(lsMessages')]_vars

\* the unread count loadInternalMessagesForUser would show to the user
UnreadCount(messages, user) ==
    Cardinality({i \in 1..Len(messages) :
        IsForUser(messages[i], user) /\ user.username \notin messages[i].readBy})

\* the stored users, as the User records of their sessions
StoredUsers == {User(ReadUsers[i].username, ReadUsers[i].role) : i \in 1..Len(ReadUsers)}

\* C23: a message addressed to a role is in the inbox of every user of that
\* role and of no user of another role; when one holder marks it read it
\* stays unread for every other holder, whose unread count does not change.
C23_RoleBroadcast ==
    [][/\ \A i \in 1..Len(lsMessages) :
             lsMessages[i].recipientIdentifier.type = "role" =>
                \A u \in StoredUsers :
                   IsForUser(lsMessages[i], u) <=> u.role = lsMessages[i].recipientIdentifier.value
       /\ \A t \in DOMAIN tab :
             MarksRead(t) =>
                \A i \in 1..Len(tab[t].messages) :
                   (/\ handleViewMessage(t, i)
                    /\ tab[t].messages[i].recipientIdentifier.type = "role")
                      => \A u \in StoredUsers :
                            (/\ u.username # UsernameOf(t)
                             /\ u.role = tab[t].messages[i].recipientIdentifier.value)
                               => UnreadCount(lsMessages', u) = UnreadCount(lsMessages, u)]_vars

\* C24: deleting the read inbox messages of a user removes from the store
\* exactly the messages addressed to the user, by name or by role, that the
\* user has read; every other message is still stored, content and readBy
\* unchanged.
C24_DeleteReadExact ==
    [][\A t \in DOMAIN tab :
          (/\ LoggedIn(t) /\ tab[t].showInternalMessagesModal
           /\ handleDeleteReadInboxMessages(t))
             => LET user == Val(tab[t].currentUser)
                    before == SeqToSet(lsMessages)
                    removed == {m \in before :
                                   IsForUser(m, user) /\ user.username \in m.readBy}
                IN  SeqToSet(lsMessages') = before \ removed]_vars

\* C27: a deletion of read inbox messages by one holder of a role leaves
\* every message addressed to the role in the store for the other holders
\* of the role who have not read it.
C27_RoleMessageKeptForOthers ==
    [][\A t \in DOMAIN tab :
          (/\ LoggedIn(t) /\ tab[t].showInternalMessagesModal
           /\ handleDeleteReadInboxMessages(t))
             => \A i \in 1..Len(lsMessages) :
                   LET m == lsMessages[i]
                   IN  (/\ m.recipientIdentifier.type = "role"
                        /\ \E u \in StoredUsers :
                              /\ u.username # UsernameOf(t)
                              /\ u.role = m.recipientIdentifier.value
                              /\ u.username \notin m.readBy)
                          => m.id \in MessageIds(lsMessages')]_vars

====
